---- MODULE Spec2Model ----
(***************************************************************************)
(* Model of src/src/security/firewall.c: the packet classifier apply_rules *)
(* (Ethernet -> IPv4 -> TCP/UDP parsing followed by first-match rule       *)
(* evaluation).                                                            *)
(*                                                                         *)
(* Spec runs one call of apply_rules on an arbitrary buffer, length and    *)
(* rule table.  The buffer is a byte array of MaxLen bytes of which only   *)
(* the first len bytes are the frame; the bytes at offsets >= len are      *)
(* whatever the caller's memory holds (stale or uninitialised), so Init    *)
(* draws them like any other byte.                                         *)
(*                                                                         *)
(* MainSpec runs main: the startup steps and then the capture loop, which  *)
(* calls apply_rules on one reused buffer with the table main installs.    *)
(* ConcSpec runs two calls of apply_rules at once on two frames and one    *)
(* table.                                                                  *)
(*                                                                         *)
(* Memory loads are those of a little-endian host (the Linux/x86 build     *)
(* that <linux/if_packet.h> implies): a struct field of two or four bytes  *)
(* is loaded least-significant byte first, and ntohs swaps the two bytes.  *)
(***************************************************************************)
EXTENDS Integers, Sequences, FiniteSets, TLC

VARIABLES packet, len, rules, num_rules, pc, proto, port, saddr, i, ret,
          out, reads, consulted, nrecv, calls, arrived,
          argc, if_index, sockfd, sock, status, err, other

\* the arguments, locals and return value of apply_rules, and stdout
callvars == <<packet, len, rules, num_rules, pc, proto, port, saddr, i, ret,
              out, reads, consulted>>

\* what main adds: the number of recvfrom calls made, the record of the
\* frames recvfrom delivered (buffer, length) and of the classifications that
\* returned (buffer, length, decision), main's argc, if_index and sockfd, the
\* state of the socket, the exit status and stderr
mainvars == <<nrecv, calls, arrived, argc, if_index, sockfd, sock, status, err>>

\* the saved context of a second call of apply_rules, preempted while the
\* call in callvars runs
concvars == <<other>>

vars == <<callvars, mainvars, concvars>>

(***************************************************************************)
(* Bounds of the model.                                                    *)
(***************************************************************************)
\* capacity of the packet buffer handed to apply_rules, and largest len
MaxLen == 58
\* longest rule table built from RuleSet (the named tables are longer)
MaxRules == 2
\* number of recvfrom calls the capture loop makes
MaxRecv == 3

(***************************************************************************)
(* Program constants.                                                      *)
(***************************************************************************)
MAX_RULES == 10
ETH_P_IP == 2048
ETH_P_ARP == 2054
IPPROTO_ICMP == 1
IPPROTO_TCP == 6
IPPROTO_UDP == 17
\* sizeof(struct ether_header), sizeof(struct iphdr), sizeof(struct tcphdr),
\* sizeof(struct udphdr)
SizeofEtherHeader == 14
SizeofIpHdr == 20
SizeofTcpHdr == 20
SizeofUdpHdr == 8

(***************************************************************************)
(* Memory loads and byte-order conversion.                                 *)
(***************************************************************************)
\* a uint16_t field at offset off, as the little-endian host loads it
Load16(p, off) == p[off] + 256 * p[off + 1]

\* a uint32_t field at offset off, as the little-endian host loads it
Load32(p, off) ==
    p[off] + 256 * p[off + 1] + 65536 * p[off + 2] + 16777216 * p[off + 3]

\* ntohs on a little-endian host: swap the two bytes
ntohs(x) == (x % 256) * 256 + (x \div 256)

\* eth_hdr->ether_type (offset 12 of struct ether_header)
EtherTypeField(p) == Load16(p, 12)

\* ip_hdr->ihl: the low nibble of the first byte of the IP header
IhlField(p) == p[SizeofEtherHeader] % 16

\* ip_hdr->protocol (offset 9 of struct iphdr)
ProtocolField(p) == p[SizeofEtherHeader + 9]

\* ip_hdr->saddr (offset 12 of struct iphdr), loaded without conversion
SaddrField(p) == Load32(p, SizeofEtherHeader + 12)

\* packet + sizeof(struct ether_header) + (ip_hdr->ihl * 4)
TransportOffset(p) == SizeofEtherHeader + IhlField(p) * 4

\* tcp_hdr->dest / udp_hdr->dest (offset 2 of both headers)
DestField(p) == Load16(p, TransportOffset(p) + 2)

(***************************************************************************)
(* apply_rules, condition by condition.                                    *)
(***************************************************************************)
\* a bug: only the first byte of ether_type is compared
IsNonIPFirstByte(p) == p[12] # ETH_P_IP \div 256

\* line 37: ntohs(eth_hdr->ether_type) != ETH_P_IP
IsNonIP(p) == ntohs(EtherTypeField(p)) # ETH_P_IP

\* lines 42, 49 and 54: a < b where a side is a sizeof: the ssize_t len is
\* converted to size_t, so a negative value becomes 2^64 + value and lies
\* above every value that was not negative
SizeTLess(a, b) == IF (a < 0) = (b < 0) THEN a < b ELSE b < 0

\* a bug: the length is checked against the Ethernet header alone
IsShortIpEtherOnly(l) == SizeTLess(l, SizeofEtherHeader)

\* line 42: len < sizeof(struct ether_header) + sizeof(struct iphdr)
IsShortIp(l) == SizeTLess(l, SizeofEtherHeader + SizeofIpHdr)

\* a bug: the transport length test is off by one (> instead of >=)
TransportFitsStrict(p, l, hdrsize) ==
    SizeTLess(TransportOffset(p) + hdrsize, l)

\* lines 49 and 54: the transport header of hdrsize bytes fits in len
\* (len >= ..., in size_t)
TransportFits(p, l, hdrsize) == ~SizeTLess(l, TransportOffset(p) + hdrsize)

\* a bug: the TCP branch tests the length against sizeof(struct udphdr)
ExtractPortShortCheck(p, l) ==
    IF ProtocolField(p) \in {IPPROTO_TCP, IPPROTO_UDP}
    THEN IF TransportFits(p, l, SizeofUdpHdr) THEN ntohs(DestField(p)) ELSE 0
    ELSE 0

\* a bug: the port is read whatever the protocol is
ExtractPortAnyProto(p, l) ==
    IF TransportFits(p, l, SizeofTcpHdr) THEN ntohs(DestField(p)) ELSE 0

\* lines 46-57: the destination port, 0 when it is not extracted
ExtractPort(p, l) ==
    IF ProtocolField(p) = IPPROTO_TCP
    THEN IF TransportFits(p, l, SizeofTcpHdr) THEN ntohs(DestField(p)) ELSE 0
    ELSE IF ProtocolField(p) = IPPROTO_UDP
    THEN IF TransportFits(p, l, SizeofUdpHdr) THEN ntohs(DestField(p)) ELSE 0
    ELSE 0

\* the byte offsets lines 46-60 read: protocol always, ihl for TCP and UDP,
\* the two bytes of dest when the length check passes, saddr for inet_ntop
ParseReads(p, l) ==
    {SizeofEtherHeader + 9}
    \cup (SizeofEtherHeader + 12)..(SizeofEtherHeader + 15)
    \cup (IF ProtocolField(p) \in {IPPROTO_TCP, IPPROTO_UDP}
          THEN {SizeofEtherHeader} ELSE {})
    \cup (IF \/ /\ ProtocolField(p) = IPPROTO_TCP
                /\ TransportFits(p, l, SizeofTcpHdr)
             \/ /\ ProtocolField(p) = IPPROTO_UDP
                /\ TransportFits(p, l, SizeofUdpHdr)
          THEN {TransportOffset(p) + 2, TransportOffset(p) + 3} ELSE {})

\* line 60: inet_ntop(AF_INET, &ip_hdr->saddr, ...): the four bytes in
\* memory order, printed as dotted decimal
inet_ntop(p) ==
    <<p[SizeofEtherHeader + 12], p[SizeofEtherHeader + 13],
      p[SizeofEtherHeader + 14], p[SizeofEtherHeader + 15]>>

\* a bug: the source address of the rule is not compared
RuleMatchesNoSrc(r, pr, po, sa) ==
    /\ (r.protocol = pr \/ r.protocol = 0)
    /\ (r.port = po \/ r.port = 0)

\* lines 63-65: the condition of the rule loop
RuleMatches(r, pr, po, sa) ==
    /\ (r.protocol = pr \/ r.protocol = 0)
    /\ (r.port = po \/ r.port = 0)
    /\ (r.src_ip = sa \/ r.src_ip = 0)

\* lines 68-69: the protocol name printed for a matched rule
ProtoName(pr) ==
    IF pr = IPPROTO_TCP THEN "TCP"
    ELSE IF pr = IPPROTO_UDP THEN "UDP" ELSE "ICMP"

\* line 67: rules[i].allow ? "Allowed" : "Denied"
ActionName(r) == IF r.allow # 0 THEN "Allowed" ELSE "Denied"

\* lines 66-70: the format has five conversions (%s %s %u %u %s) and the call
\* gives four arguments (action, name, port, src_ip_str): ip_hdr->protocol
\* is missing.  So "proto %u" prints port, "port %u" prints the low 32 bits
\* of the pointer src_ip_str, and "src %s" reads an argument that was never
\* passed: undefined behaviour.  What the last two conversions yield is not
\* determined by the program; PrintfGarbage are the outcomes in which the
\* call survives, g.num the number printed as port and g.str the string
\* printed as src.
PrintfGarbage == {[num |-> 0, str |-> ""], [num |-> 305455104, str |-> "?"]}

RuleLine(r, pr, po, g) ==
    [kind |-> "rule", action |-> ActionName(r), name |-> ProtoName(pr),
     proto |-> po, port |-> g.num, src |-> g.str]

\* lines 75-76: the line printed when no rule matched
DefaultLine(p, pr, po) ==
    [kind |-> "default", action |-> "Allowed", name |-> "",
     proto |-> pr, port |-> po, src |-> inet_ntop(p)]

(***************************************************************************)
(* The steps of one call.                                                  *)
(***************************************************************************)
\* a bug: ether_type is converted in place, in the caller's buffer
CheckEtherTypeInPlace ==
    /\ pc = "ether"
    /\ reads' = reads \cup {12, 13}
    /\ packet' = [packet EXCEPT ![12] = packet[13], ![13] = packet[12]]
    /\ IF IsNonIP(packet)
       THEN /\ ret' = 1
            /\ pc' = "done"
       ELSE /\ ret' = ret
            /\ pc' = "iplen"
    /\ UNCHANGED <<len, rules, num_rules, proto, port, saddr, i, out,
                   consulted>>

\* lines 36-39: read ether_type; a non-IP frame is allowed at once
CheckEtherType ==
    /\ pc = "ether"
    /\ reads' = reads \cup {12, 13}
    /\ IF IsNonIP(packet)
       THEN /\ ret' = 1
            /\ pc' = "done"
       ELSE /\ ret' = ret
            /\ pc' = "iplen"
    /\ UNCHANGED <<packet, len, rules, num_rules, proto, port, saddr, i, out,
                   consulted>>

\* lines 41-44: a frame too short for the fixed IP header is denied
CheckIpLength ==
    /\ pc = "iplen"
    /\ IF IsShortIp(len)
       THEN /\ ret' = 0
            /\ pc' = "done"
       ELSE /\ ret' = ret
            /\ pc' = "parse"
    /\ UNCHANGED <<packet, len, rules, num_rules, proto, port, saddr, i, out,
                   reads, consulted>>

\* lines 46-60: protocol, destination port and source address
ParseTransport ==
    /\ pc = "parse"
    /\ proto' = ProtocolField(packet)
    /\ port' = ExtractPort(packet, len)
    /\ saddr' = SaddrField(packet)
    /\ reads' = reads \cup ParseReads(packet, len)
    /\ i' = 0
    /\ pc' = "loop"
    /\ UNCHANGED <<packet, len, rules, num_rules, ret, out, consulted>>

\* lines 62-70: rule i matches: print its line.  The printf dereferences a
\* missing argument, so the call either dies there (SIGSEGV, nothing
\* returned) or prints a line with garbage in it and goes on to line 71.
RuleHit ==
    /\ pc = "loop"
    /\ i < num_rules
    /\ RuleMatches(rules[i + 1], proto, port, saddr)
    /\ consulted' = consulted \cup {i}
    /\ \/ /\ pc' = "crashed"
          /\ out' = out
       \/ \E g \in PrintfGarbage :
             /\ out' = Append(out, RuleLine(rules[i + 1], proto, port, g))
             /\ pc' = "ruleret"
    /\ UNCHANGED <<packet, len, rules, num_rules, proto, port, saddr, i,
                   ret, reads>>

\* line 71: return rules[i].allow, after the line is out
RuleReturn ==
    /\ pc = "ruleret"
    /\ ret' = rules[i + 1].allow
    /\ pc' = "done"
    /\ UNCHANGED <<packet, len, rules, num_rules, proto, port, saddr, i,
                   out, reads, consulted>>

\* lines 62-73: rule i does not match: i++
RuleMiss ==
    /\ pc = "loop"
    /\ i < num_rules
    /\ ~RuleMatches(rules[i + 1], proto, port, saddr)
    /\ consulted' = consulted \cup {i}
    /\ i' = i + 1
    /\ UNCHANGED <<packet, len, rules, num_rules, pc, proto, port, saddr,
                   ret, out, reads>>

\* lines 75-76: the loop ended without a match: print the default line
DefaultLog ==
    /\ pc = "loop"
    /\ ~(i < num_rules)
    /\ out' = Append(out, DefaultLine(packet, proto, port))
    /\ pc' = "defret"
    /\ UNCHANGED <<packet, len, rules, num_rules, proto, port, saddr, i,
                   ret, reads, consulted>>

\* a bug: the default is deny
DefaultDeny ==
    /\ pc = "defret"
    /\ ret' = 0
    /\ pc' = "done"
    /\ UNCHANGED <<packet, len, rules, num_rules, proto, port, saddr, i,
                   out, reads, consulted>>

\* line 77: return 1, allow by default, after the line is out
DefaultAllow ==
    /\ pc = "defret"
    /\ ret' = 1
    /\ pc' = "done"
    /\ UNCHANGED <<packet, len, rules, num_rules, proto, port, saddr, i,
                   out, reads, consulted>>

(***************************************************************************)
(* The inputs of a call.                                                   *)
(***************************************************************************)
\* struct firewall_rule
Rule(pr, po, sa, al) == [protocol |-> pr, port |-> po, src_ip |-> sa, allow |-> al]

\* 10.0.0.1 as a host-order 32-bit value (0x0A000001)
RuleSrc == 10 * 16777216 + 1

\* lines 120-122: the table main installs
Rule1 == Rule(IPPROTO_TCP, 80, 0, 1)
Rule2 == Rule(IPPROTO_ICMP, 0, 0, 0)
Rule3 == Rule(IPPROTO_UDP, 53, 0, 1)
ReferenceRules == <<Rule1, Rule2, Rule3>>

\* a zero-initialised slot of the array
ZeroRule == Rule(0, 0, 0, 0)

\* line 119: rules[MAX_RULES] as main holds it, slots 3..9 zero
MainRules == [k \in 1..MAX_RULES |-> IF k <= 3 THEN ReferenceRules[k] ELSE ZeroRule]

\* the reference table with rules 1 and 2 swapped
SwappedRules == <<Rule2, Rule1, Rule3>>

\* the reference table with (TCP, any, any, deny) inserted before rule 1
TcpDeny == Rule(IPPROTO_TCP, 0, 0, 0)
InsertedRules == <<TcpDeny, Rule1, Rule2, Rule3>>

\* the rules the generated tables are built from
\* (any, any, any, allow) and a rule with all three fields specific
AllowAll == Rule(0, 0, 0, 1)
FullRule == Rule(IPPROTO_TCP, 80, RuleSrc, 0)
RuleSet == {Rule1, Rule2, TcpDeny, ZeroRule, AllowAll, FullRule}

\* a rule that names only a port, followed by allow-all
Port80Deny == Rule(0, 80, 0, 0)
PortOnlyRules == <<Port80Deny, AllowAll>>

SeqsUpTo(S, n) == UNION {[1..k -> S] : k \in 0..n}

\* the (rules, num_rules) pairs a call is given
TableInputs ==
    {<<t, Len(t)>> : t \in SeqsUpTo(RuleSet, MaxRules)}
    \cup {<<ReferenceRules, 3>>, <<SwappedRules, 3>>, <<InsertedRules, 4>>,
          <<MainRules, 3>>, <<PortOnlyRules, 2>>}

EtherTypes == {ETH_P_IP, ETH_P_ARP}
\* version 4 with IHL 5, 6, 15 and 3
VersionIhlBytes == {69, 70, 79, 67}
\* ICMP, TCP, UDP and a protocol the code has no name for (47, GRE)
Protocols == {IPPROTO_ICMP, IPPROTO_TCP, IPPROTO_UDP, 47}
\* 10.0.0.1 and 1.0.0.10 in wire order
SrcAddrs == {<<10, 0, 0, 1>>, <<1, 0, 0, 10>>}
DestPorts == {80, 53, 22}

\* the buffer: Ethernet type, first IP byte, protocol, source address and
\* destination port in wire (big-endian) order, zero elsewhere; the header
\* fields win where an IHL below 5 puts the port inside the IP header
Frame(et, vihl, pr, src, dp) ==
    [o \in 0..(MaxLen - 1) |->
        IF o = 12 THEN et \div 256
        ELSE IF o = 13 THEN et % 256
        ELSE IF o = SizeofEtherHeader THEN vihl
        ELSE IF o = SizeofEtherHeader + 9 THEN pr
        ELSE IF o \in (SizeofEtherHeader + 12)..(SizeofEtherHeader + 15)
             THEN src[o - (SizeofEtherHeader + 11)]
        ELSE IF o = SizeofEtherHeader + (vihl % 16) * 4 + 2 THEN dp \div 256
        ELSE IF o = SizeofEtherHeader + (vihl % 16) * 4 + 3 THEN dp % 256
        ELSE 0]

Frames ==
    {Frame(et, vihl, pr, src, dp) :
        et \in EtherTypes, vihl \in VersionIhlBytes, pr \in Protocols,
        src \in SrcAddrs, dp \in DestPorts}

\* main is not part of the run
NoMain ==
    /\ nrecv = 0
    /\ calls = <<>>
    /\ arrived = <<>>
    /\ argc = 0
    /\ if_index = 0
    /\ sockfd = -1
    /\ sock = "none"
    /\ status = -1
    /\ err = <<>>

\* there is no second call
NoCall == [pc |-> "none"]

\* a call of apply_rules starts: its locals hold nothing yet
CallEntry ==
    /\ pc = "ether"
    /\ proto = 0
    /\ port = 0
    /\ saddr = 0
    /\ i = 0
    /\ ret = -1
    /\ reads = {}
    /\ consulted = {}

Init ==
    /\ packet \in Frames
    /\ len \in 0..MaxLen
    /\ \E t \in TableInputs : rules = t[1] /\ num_rules = t[2]
    /\ CallEntry
    /\ out = <<>>
    /\ NoMain
    /\ other = NoCall

Next ==
    \/ CheckEtherType /\ UNCHANGED <<mainvars, concvars>>
    \/ CheckIpLength /\ UNCHANGED <<mainvars, concvars>>
    \/ ParseTransport /\ UNCHANGED <<mainvars, concvars>>
    \/ RuleHit /\ UNCHANGED <<mainvars, concvars>>
    \/ RuleReturn /\ UNCHANGED <<mainvars, concvars>>
    \/ RuleMiss /\ UNCHANGED <<mainvars, concvars>>
    \/ DefaultLog /\ UNCHANGED <<mainvars, concvars>>
    \/ DefaultAllow /\ UNCHANGED <<mainvars, concvars>>

Spec == Init /\ [][Next]_vars

(***************************************************************************)
(* main, lines 81-141: startup, then the capture loop with one buffer,     *)
(* reused for every frame, and the table of lines 119-124.                 *)
(***************************************************************************)
\* the frames the socket delivers: ARP, ICMP, TCP to 80 and to 22, UDP to 53
WireFrames ==
    {Frame(ETH_P_ARP, 0, 0, <<0, 0, 0, 0>>, 0),
     Frame(ETH_P_IP, 69, IPPROTO_ICMP, <<10, 0, 0, 1>>, 0),
     Frame(ETH_P_IP, 69, IPPROTO_TCP, <<10, 0, 0, 1>>, 80),
     Frame(ETH_P_IP, 69, IPPROTO_TCP, <<10, 0, 0, 1>>, 22),
     Frame(ETH_P_IP, 69, IPPROTO_UDP, <<10, 0, 0, 1>>, 53)}

\* the lengths recvfrom returns for them: empty, around the Ethernet
\* header, the fixed IP header, a whole TCP header
RecvLens ==
    {0, SizeofEtherHeader - 1, SizeofEtherHeader,
     SizeofEtherHeader + SizeofIpHdr,
     SizeofEtherHeader + SizeofIpHdr + SizeofTcpHdr}

\* line 129: packet[BUFFER_SIZE] is not initialised: it holds zeros or
\* whatever the stack held
ZeroBuffer == [o \in 0..(MaxLen - 1) |-> 0]
StackGarbage == {ZeroBuffer} \cup WireFrames

\* line 133: recvfrom stores the n bytes of frame f at the start of the
\* buffer and leaves the rest of it as it was
Received(buf, f, n) == [o \in 0..(MaxLen - 1) |-> IF o < n THEN f[o] ELSE buf[o]]

\* the argument counts main is started with
ArgCounts == {1, 2, 3}
\* what if_nametoindex returns: 0 (no such interface) or an index
IfIndexes == {0, 2}
\* what socket returns: -1 or a descriptor
SocketResults == {-1, 3}
\* what bind returns
BindResults == {-1, 0}

\* line 81: main is entered; nothing is installed yet, the stack where packet
\* will live holds anything
MainInit ==
    /\ packet \in StackGarbage
    /\ len = 0
    /\ rules = <<>>
    /\ num_rules = 0
    /\ pc = "args"
    /\ proto = 0
    /\ port = 0
    /\ saddr = 0
    /\ i = 0
    /\ ret = -1
    /\ reads = {}
    /\ consulted = {}
    /\ out = <<>>
    /\ nrecv = 0
    /\ calls = <<>>
    /\ arrived = <<>>
    /\ argc \in ArgCounts
    /\ if_index = 0
    /\ sockfd = -1
    /\ sock = "none"
    /\ status = -1
    /\ err = <<>>
    /\ other = NoCall

\* lines 83-87: argc != 2: usage on stderr, exit(1)
CheckArgs ==
    /\ pc = "args"
    /\ IF argc # 2
       THEN /\ err' = err \o <<"Usage", "Example">>
            /\ status' = 1
            /\ pc' = "exited"
       ELSE /\ pc' = "ifindex"
            /\ UNCHANGED <<err, status>>
    /\ UNCHANGED <<packet, len, rules, num_rules, proto, port, saddr, i, ret,
                   out, reads, consulted, nrecv, calls, arrived, argc,
                   if_index, sockfd, sock, other>>

\* lines 93-97: if_nametoindex; 0 is a failure: perror, exit(1)
ResolveInterface ==
    /\ pc = "ifindex"
    /\ \E ix \in IfIndexes :
          /\ if_index' = ix
          /\ IF ix = 0
             THEN /\ err' = Append(err, "Invalid interface")
                  /\ status' = 1
                  /\ pc' = "exited"
             ELSE /\ pc' = "socket"
                  /\ UNCHANGED <<err, status>>
    /\ UNCHANGED <<packet, len, rules, num_rules, proto, port, saddr, i, ret,
                   out, reads, consulted, nrecv, calls, arrived, argc,
                   sockfd, sock, other>>

\* lines 100-104: socket; a negative result is a failure: perror, exit(1)
CreateSocket ==
    /\ pc = "socket"
    /\ \E fd \in SocketResults :
          /\ sockfd' = fd
          /\ IF fd < 0
             THEN /\ err' = Append(err, "Socket creation failed")
                  /\ status' = 1
                  /\ pc' = "exited"
                  /\ sock' = sock
             ELSE /\ sock' = "open"
                  /\ pc' = "bind"
                  /\ UNCHANGED <<err, status>>
    /\ UNCHANGED <<packet, len, rules, num_rules, proto, port, saddr, i, ret,
                   out, reads, consulted, nrecv, calls, arrived, argc,
                   if_index, other>>

\* a bug: a failed bind exits with the socket left open
BindSocketNoClose ==
    /\ pc = "bind"
    /\ \E r \in BindResults :
          IF r < 0
          THEN /\ err' = Append(err, "Bind failed")
               /\ status' = 1
               /\ pc' = "exited"
               /\ sock' = sock
          ELSE /\ sock' = "bound"
               /\ pc' = "rules"
               /\ UNCHANGED <<err, status>>
    /\ UNCHANGED <<packet, len, rules, num_rules, proto, port, saddr, i, ret,
                   out, reads, consulted, nrecv, calls, arrived, argc,
                   if_index, sockfd, other>>

\* lines 107-116: bind to the interface; on failure perror, close(sockfd),
\* exit(1)
BindSocket ==
    /\ pc = "bind"
    /\ \E r \in BindResults :
          IF r < 0
          THEN /\ err' = Append(err, "Bind failed")
               /\ sock' = "closed"
               /\ status' = 1
               /\ pc' = "exited"
          ELSE /\ sock' = "bound"
               /\ pc' = "rules"
               /\ UNCHANGED <<err, status>>
    /\ UNCHANGED <<packet, len, rules, num_rules, proto, port, saddr, i, ret,
                   out, reads, consulted, nrecv, calls, arrived, argc,
                   if_index, sockfd, other>>

\* line 126: "Firewall started on <if_name>"
StartedLine ==
    [kind |-> "started", action |-> "", name |-> "", proto |-> 0,
     port |-> 0, src |-> ""]

\* a bug: the whole array counts as the table
InstallRulesWholeArray ==
    /\ pc = "rules"
    /\ rules' = MainRules
    /\ num_rules' = MAX_RULES
    /\ out' = Append(out, StartedLine)
    /\ pc' = "recv"
    /\ UNCHANGED <<packet, len, proto, port, saddr, i, ret, reads, consulted,
                   nrecv, calls, arrived, argc, if_index, sockfd, sock,
                   status, err, other>>

\* lines 119-129: the table and its size, the start line, the buffer
InstallRules ==
    /\ pc = "rules"
    /\ rules' = MainRules
    /\ num_rules' = 3
    /\ out' = Append(out, StartedLine)
    /\ pc' = "recv"
    /\ UNCHANGED <<packet, len, proto, port, saddr, i, ret, reads, consulted,
                   nrecv, calls, arrived, argc, if_index, sockfd, sock,
                   status, err, other>>

\* a bug: the failed receive is not skipped, its length goes to apply_rules
RecvFailClassified ==
    /\ pc = "recv"
    /\ nrecv < MaxRecv
    /\ nrecv' = nrecv + 1
    /\ len' = -1
    /\ err' = Append(err, "Receive failed")
    /\ pc' = "ether"
    /\ proto' = 0
    /\ port' = 0
    /\ saddr' = 0
    /\ i' = 0
    /\ ret' = -1
    /\ reads' = {}
    /\ consulted' = {}
    /\ UNCHANGED <<packet, rules, num_rules, out, calls, arrived, argc,
                   if_index, sockfd, sock, status, other>>

\* lines 133-137: recvfrom fails: perror and continue
RecvFail ==
    /\ pc = "recv"
    /\ nrecv < MaxRecv
    /\ nrecv' = nrecv + 1
    /\ len' = -1
    /\ err' = Append(err, "Receive failed")
    /\ UNCHANGED <<packet, rules, num_rules, pc, proto, port, saddr, i, ret,
                   out, reads, consulted, calls, arrived, argc, if_index,
                   sockfd, sock, status, other>>

\* lines 133-140: recvfrom delivers a frame and apply_rules is called on it
RecvFrame ==
    /\ pc = "recv"
    /\ nrecv < MaxRecv
    /\ nrecv' = nrecv + 1
    /\ \E f \in WireFrames, n \in RecvLens :
          /\ packet' = Received(packet, f, n)
          /\ len' = n
    /\ arrived' = Append(arrived, [packet |-> packet', len |-> len'])
    /\ pc' = "ether"
    /\ proto' = 0
    /\ port' = 0
    /\ saddr' = 0
    /\ i' = 0
    /\ ret' = -1
    /\ reads' = {}
    /\ consulted' = {}
    /\ UNCHANGED <<rules, num_rules, out, calls, argc, if_index, sockfd, sock,
                   status, err, other>>

\* line 140: apply_rules has returned; its value is dropped and the loop
\* goes round
Return ==
    /\ pc = "done"
    /\ calls' = Append(calls, [packet |-> packet, len |-> len, ret |-> ret])
    /\ pc' = "recv"
    /\ UNCHANGED <<packet, len, rules, num_rules, proto, port, saddr, i, ret,
                   out, reads, consulted, nrecv, arrived, argc, if_index,
                   sockfd, sock, status, err, other>>

MainNext ==
    \/ CheckArgs
    \/ ResolveInterface
    \/ CreateSocket
    \/ BindSocket
    \/ InstallRules
    \/ RecvFail
    \/ RecvFrame
    \/ CheckEtherType /\ UNCHANGED <<mainvars, concvars>>
    \/ CheckIpLength /\ UNCHANGED <<mainvars, concvars>>
    \/ ParseTransport /\ UNCHANGED <<mainvars, concvars>>
    \/ RuleHit /\ UNCHANGED <<mainvars, concvars>>
    \/ RuleReturn /\ UNCHANGED <<mainvars, concvars>>
    \/ RuleMiss /\ UNCHANGED <<mainvars, concvars>>
    \/ DefaultLog /\ UNCHANGED <<mainvars, concvars>>
    \/ DefaultAllow /\ UNCHANGED <<mainvars, concvars>>
    \/ Return

MainSpec == MainInit /\ [][MainNext]_vars

(***************************************************************************)
(* Two calls of apply_rules at once, on two frames and one table: two      *)
(* threads of one process.  Everything a call works on besides the table   *)
(* and stdout is an argument or an automatic variable, so each call has    *)
(* its own; callvars hold those of the running call, other those of the    *)
(* preempted one.                                                          *)
(***************************************************************************)
\* lines 35-77: the value one call returns, as a function of its arguments
Decision(p, l, rs, n) ==
    IF IsNonIP(p) THEN 1
    ELSE IF IsShortIp(l) THEN 0
    ELSE LET hit == {k \in 1..n :
                        RuleMatches(rs[k], ProtocolField(p), ExtractPort(p, l),
                                    SaddrField(p))}
         IN  IF hit = {} THEN 1
             ELSE rs[CHOOSE k \in hit : \A j \in hit : k <= j].allow

\* the context of the running call
Context ==
    [packet |-> packet, len |-> len, pc |-> pc, proto |-> proto,
     port |-> port, saddr |-> saddr, i |-> i, ret |-> ret, reads |-> reads,
     consulted |-> consulted]

\* the context of a call that is about to start on buffer p and length l
EntryContext(p, l) ==
    [packet |-> p, len |-> l, pc |-> "ether", proto |-> 0, port |-> 0,
     saddr |-> 0, i |-> 0, ret |-> -1, reads |-> {}, consulted |-> {}]

\* the offsets of the fields apply_rules looks at in a frame with a 20-byte
\* IP header: ether_type, protocol, saddr and, for TCP and UDP only, the
\* first IP byte (for IHL) and the destination port
FilteredOffsets(f) ==
    {12, 13, SizeofEtherHeader + 9}
    \cup (SizeofEtherHeader + 12)..(SizeofEtherHeader + 15)
    \cup (IF f[SizeofEtherHeader + 9] \in {IPPROTO_TCP, IPPROTO_UDP}
          THEN {SizeofEtherHeader,
                SizeofEtherHeader + SizeofIpHdr + 2,
                SizeofEtherHeader + SizeofIpHdr + 3}
          ELSE {})

\* frame f with everything else changed: MAC addresses, version nibble (6,
\* the IHL nibble is kept), TTL, destination address, source port, payload
Noisy(f) ==
    [o \in 0..(MaxLen - 1) |->
        IF o = SizeofEtherHeader THEN 96 + (f[o] % 16)
        ELSE IF o \in FilteredOffsets(f) THEN f[o]
        ELSE 165]

\* ICMP, TCP to 80 and to 22, GRE, with 20-byte IP headers
PlainFrames ==
    {Frame(ETH_P_IP, 69, IPPROTO_ICMP, <<10, 0, 0, 1>>, 0),
     Frame(ETH_P_IP, 69, IPPROTO_TCP, <<10, 0, 0, 1>>, 80),
     Frame(ETH_P_IP, 69, IPPROTO_TCP, <<10, 0, 0, 1>>, 22),
     Frame(ETH_P_IP, 69, 47, <<10, 0, 0, 1>>, 0)}

ConcFrames == PlainFrames \cup {Noisy(f) : f \in PlainFrames}

\* one byte short of the IP header, the IP header, one byte short of a TCP
\* header, a whole TCP header
ConcLens ==
    {SizeofEtherHeader + SizeofIpHdr - 1,
     SizeofEtherHeader + SizeofIpHdr,
     SizeofEtherHeader + SizeofIpHdr + SizeofTcpHdr - 1,
     SizeofEtherHeader + SizeofIpHdr + SizeofTcpHdr}

ConcTables == {<<>>, ReferenceRules, <<FullRule, AllowAll>>}

\* two calls are about to start on distinct frames
ConcInit ==
    /\ packet \in ConcFrames
    /\ len \in ConcLens
    /\ rules \in ConcTables
    /\ num_rules = Len(rules)
    /\ CallEntry
    /\ out = <<>>
    /\ NoMain
    /\ \E g \in ConcFrames \ {packet}, l \in ConcLens :
          other = EntryContext(g, l)

\* the running call is preempted and the other call goes on: the arguments
\* and locals of the two calls change places, the table and stdout are the
\* same for both.  A call that has returned is not resumed; a fault in one
\* call has ended the process.
Switch ==
    /\ pc # "crashed"
    /\ other.pc # "done"
    /\ other' = Context
    /\ packet' = other.packet
    /\ len' = other.len
    /\ pc' = other.pc
    /\ proto' = other.proto
    /\ port' = other.port
    /\ saddr' = other.saddr
    /\ i' = other.i
    /\ ret' = other.ret
    /\ reads' = other.reads
    /\ consulted' = other.consulted
    /\ UNCHANGED <<rules, num_rules, out, mainvars>>

ConcNext ==
    \/ CheckEtherType /\ UNCHANGED <<mainvars, concvars>>
    \/ CheckIpLength /\ UNCHANGED <<mainvars, concvars>>
    \/ ParseTransport /\ UNCHANGED <<mainvars, concvars>>
    \/ RuleHit /\ UNCHANGED <<mainvars, concvars>>
    \/ RuleReturn /\ UNCHANGED <<mainvars, concvars>>
    \/ RuleMiss /\ UNCHANGED <<mainvars, concvars>>
    \/ DefaultLog /\ UNCHANGED <<mainvars, concvars>>
    \/ DefaultAllow /\ UNCHANGED <<mainvars, concvars>>
    \/ Switch

ConcSpec == ConcInit /\ [][ConcNext]_vars

(***************************************************************************)
(* The frame as it is on the wire, read from the buffer independently of   *)
(* the steps above: multi-byte fields are big-endian.                      *)
(***************************************************************************)
WireEtherType == packet[12] * 256 + packet[13]
WireIhl == packet[SizeofEtherHeader] % 16
WireProtocol == packet[SizeofEtherHeader + 9]
WireTransport == SizeofEtherHeader + WireIhl * 4
WireDestPort == packet[WireTransport + 2] * 256 + packet[WireTransport + 3]

\* the frame has an Ethernet header whose type is IPv4
IsIPv4Frame == len >= SizeofEtherHeader /\ WireEtherType = ETH_P_IP

\* the minimal transport header of the frame's protocol
WireTransportHdr ==
    IF WireProtocol = IPPROTO_TCP THEN SizeofTcpHdr
    ELSE IF WireProtocol = IPPROTO_UDP THEN SizeofUdpHdr ELSE 0

\* an IPv4 frame with a whole IP header of IHL >= 5 words and, for TCP and
\* UDP, a whole minimal transport header
WellFormed ==
    /\ IsIPv4Frame
    /\ len >= SizeofEtherHeader + SizeofIpHdr
    /\ WireIhl >= 5
    /\ len >= WireTransport + WireTransportHdr

\* a rule's three fields are each "any" (0) or equal to the parsed field
FieldsMatch(r) ==
    /\ r.protocol \in {0, proto}
    /\ r.port \in {0, port}
    /\ r.src_ip \in {0, saddr}

\* the rules of the table that match the parsed packet, 1-based
Matching == {k \in 1..num_rules : FieldsMatch(rules[k])}
FirstMatching == CHOOSE k \in Matching : \A j \in Matching : k <= j

\* the call is over: it returned, or it died in the printf of line 66
Ended == pc \in {"done", "crashed"}

\* the rule loop is over: a rule matched or the table is exhausted
LoopLeft == pc \in {"ruleret", "defret", "done", "crashed"}

\* the call has returned with a printed rule line / the default line
ByRule == pc = "done" /\ Len(out) = 1 /\ out[1].kind = "rule"
ByDefault == pc = "done" /\ Len(out) = 1 /\ out[1].kind = "default"

(***************************************************************************)
(* C1 - C10                                                                *)
(***************************************************************************)
\* C1: a frame shorter than the 14-byte Ethernet header is denied whatever
\* the bytes and the table are, and no byte at an offset >= len is read.
\* The code reads ether_type at offsets 12-13 before any length check.
C1_ShortFrameDenied ==
    (Ended /\ len < SizeofEtherHeader)
        => (ret = 0 /\ \A o \in reads : o < len)

\* C2: an IPv4 frame whose IHL*4 exceeds the bytes after the Ethernet header
\* is denied for every table and no rule is evaluated against it.
\* The code never compares IHL*4 with len - 14.
C2_IhlBeyondFrameDenied ==
    (Ended /\ IsIPv4Frame /\ len > SizeofEtherHeader
        /\ len - SizeofEtherHeader < WireIhl * 4)
        => (ret = 0 /\ consulted = {})

\* C3: an IPv4 frame with 14 <= len < 34 is denied whatever the table is,
\* and the rule loop is never entered for it.
C3_ShortIpDenied ==
    (IsIPv4Frame /\ len < SizeofEtherHeader + SizeofIpHdr)
        => /\ pc \in {"ether", "iplen", "done"}
           /\ consulted = {}
           /\ out = <<>>
           /\ pc = "done" => ret = 0

C3_Witness ==
    /\ pc = "done"
    /\ IsIPv4Frame
    /\ len = SizeofEtherHeader + SizeofIpHdr - 1
    /\ rules = <<AllowAll>>
    /\ num_rules = 1
    /\ ret = 0

\* C4: a frame of at least 14 bytes whose ether_type is not IPv4 is allowed
\* whatever the table is, and no rule is compared against it.
C4_NonIpAllowed ==
    (len >= SizeofEtherHeader /\ WireEtherType # ETH_P_IP)
        => /\ pc \in {"ether", "done"}
           /\ consulted = {}
           /\ out = <<>>
           /\ pc = "done" => ret = 1

C4_Witness ==
    /\ pc = "done"
    /\ len >= SizeofEtherHeader
    /\ WireEtherType = ETH_P_ARP
    /\ rules = <<ZeroRule, ZeroRule>>
    /\ num_rules = 2
    /\ ret = 1

\* C5: first match wins: when some rule matches a well-formed IPv4 packet,
\* the call returns the action of the matching rule with the smallest index,
\* and exactly the rules up to that index have been consulted.
\* The printf of the matching rule can end the call before it returns.
C5_FirstMatchWins ==
    (Ended /\ WellFormed /\ Matching # {})
        => /\ pc = "done"
           /\ ret = rules[FirstMatching].allow
           /\ consulted = 0..(FirstMatching - 1)
           /\ i + 1 = FirstMatching

\* C6: a consulted rule matched (the loop stopped in its body) if and only
\* if each of its protocol, port and source fields is "any" or equal to the
\* packet's protocol, extracted destination port and source address.
C6_MatchIffFields ==
    \A k \in consulted :
        FieldsMatch(rules[k + 1]) <=> (LoopLeft /\ k = i)

\* a rule whose protocol and port equal the packet's is passed over because
\* its source address alone differs
C6_Witness ==
    /\ Ended
    /\ WellFormed
    /\ rules = <<FullRule, AllowAll>>
    /\ proto = IPPROTO_TCP
    /\ port = 80
    /\ saddr # RuleSrc
    /\ consulted = {0, 1}
    /\ i = 1

\* C7: a well-formed IPv4 packet that no rule matches (the empty table
\* included) is allowed and reported as default-applied; TCP to port 22
\* against the reference table is such a packet.
C7_DefaultAllow ==
    /\ (Ended /\ WellFormed /\ Matching = {})
          => (ret = 1 /\ ByDefault /\ consulted = 0..(num_rules - 1))
    /\ (Ended /\ WellFormed /\ rules = ReferenceRules
          /\ WireProtocol = IPPROTO_TCP /\ WireDestPort = 22)
          => (ret = 1 /\ ByDefault)

C7_Witness ==
    /\ pc = "done"
    /\ WellFormed
    /\ rules = ReferenceRules
    /\ WireProtocol = IPPROTO_TCP
    /\ WireDestPort = 22
    /\ ret = 1
    /\ ByDefault

\* C8: with the reference table, for every source address, well-formed TCP
\* to port 80 is allowed by rule 1, well-formed ICMP is denied by rule 2 and
\* well-formed UDP to port 53 is allowed by rule 3.
\* The printf of the matching rule can end the call before it returns.
C8_ReferenceTable ==
    (Ended /\ WellFormed /\ rules = ReferenceRules)
        => /\ (WireProtocol = IPPROTO_TCP /\ WireDestPort = 80)
                => (ret = 1 /\ ByRule /\ i + 1 = 1)
           /\ WireProtocol = IPPROTO_ICMP
                => (ret = 0 /\ ByRule /\ i + 1 = 2)
           /\ (WireProtocol = IPPROTO_UDP /\ WireDestPort = 53)
                => (ret = 1 /\ ByRule /\ i + 1 = 3)

\* C9: for a well-formed TCP packet to port 80, the reference table and the
\* table with rules 1 and 2 swapped both allow, and the table with
\* (TCP, any, any, deny) inserted before rule 1 denies.
\* The printf of the matching rule can end the call before it returns.
C9_RuleOrder ==
    (Ended /\ WellFormed /\ WireProtocol = IPPROTO_TCP
        /\ WireDestPort = 80)
        => /\ rules = ReferenceRules => ret = 1
           /\ rules = SwappedRules => ret = 1
           /\ rules = InsertedRules => ret = 0

\* C10: no byte at an offset >= len is ever read.  The code reads
\* ether_type (offsets 12-13) before it looks at len.
C10_ReadsWithinLength == \A o \in reads : o < len

(***************************************************************************)
(* C11 - C20                                                               *)
(***************************************************************************)
\* an earlier classification of the capture loop that returned
Earlier == 1..Len(calls)

\* the frame just classified is the same frame as in calls[k]: the same
\* length and the same bytes below that length
SameFrame(k) ==
    /\ calls[k].len = len
    /\ \A o \in 0..(len - 1) : calls[k].packet[o] = packet[o]

\* the whole buffer, the length and the table are those of calls[k]
SameCall(k) ==
    /\ calls[k].len = len
    /\ calls[k].packet = packet

\* C11: in the capture loop, which reuses one buffer, two classifications of
\* the same frame (same length, same bytes below the length) return the same
\* decision: the bytes an earlier, longer frame left beyond the length have
\* no influence.
C11_NoStaleBytes ==
    pc = "done" => \A k \in Earlier : SameFrame(k) => calls[k].ret = ret

\* C12: classifying the same buffer with the same length against the same
\* table again returns the decision it returned before, every time.
C12_SameDecisionAgain ==
    Ended => \A k \in Earlier : SameCall(k) => pc = "done" /\ ret = calls[k].ret

\* the call has got past the parse of lines 46-60
Parsed ==
    /\ pc \in {"loop", "ruleret", "defret", "done", "crashed"}
    /\ IsIPv4Frame
    /\ ~IsShortIp(len)

\* the frame's four source-address bytes read as a big-endian number
WireSrcAddr ==
    packet[SizeofEtherHeader + 12] * 16777216
    + packet[SizeofEtherHeader + 13] * 65536
    + packet[SizeofEtherHeader + 14] * 256
    + packet[SizeofEtherHeader + 15]

\* the whole minimal transport header of a TCP or UDP frame is in the frame
WireTransportWhole == len >= WireTransport + WireTransportHdr

\* a TCP or UDP frame whose minimal transport header is cut short
TruncatedTransport ==
    /\ WireProtocol \in {IPPROTO_TCP, IPPROTO_UDP}
    /\ ~WireTransportWhole

\* the loop stopped in the body of rule k (0-based)
StoppedAt(k) == LoopLeft /\ k = i

\* C13: classification is total: every call ends by returning exactly one
\* decision, allow or deny, after at most num_rules rule comparisons.
\* A call that matches a rule can die in the printf of line 66 instead.
C13_Total ==
    Ended => /\ pc = "done"
             /\ ret \in {0, 1}
             /\ Cardinality(consulted) <= num_rules

\* C14: for a TCP or UDP packet the destination port is extracted if and
\* only if len >= 14 + IHL*4 + 20 (TCP) or + 8 (UDP): below that the port is
\* unset (0), from there on it is the big-endian 16-bit value at offset
\* 14 + IHL*4 + 2.
C14_PortExtraction ==
    (Parsed /\ WireProtocol \in {IPPROTO_TCP, IPPROTO_UDP})
        => /\ port = IF WireTransportWhole THEN WireDestPort ELSE 0
           /\ WireIhl >= 5 =>
                (WireTransportWhole <=>
                    {WireTransport + 2, WireTransport + 3} \subseteq reads)

\* a TCP frame exactly at the boundary, with its port extracted
C14_Witness ==
    /\ Parsed
    /\ WireProtocol = IPPROTO_TCP
    /\ len = WireTransport + SizeofTcpHdr
    /\ WireDestPort = 80
    /\ port = 80

\* C15: for a TCP or UDP packet with a truncated transport header no rule
\* that names a port matches, whatever bytes lie where the port would be,
\* and a rule with port "any" matches on protocol and source address alone.
C15_TruncatedPortRules ==
    (Parsed /\ TruncatedTransport)
        => \A k \in consulted :
              LET r == rules[k + 1]
              IN  /\ r.port # 0 => ~StoppedAt(k)
                  /\ (/\ r.port = 0
                      /\ r.protocol \in {0, WireProtocol}
                      /\ r.src_ip \in {0, saddr}) => StoppedAt(k)

\* a TCP frame one byte short of its header, with 80 where the port is:
\* (TCP, 80) is passed over and (TCP, any) matches
C15_Witness ==
    /\ Parsed
    /\ WireProtocol = IPPROTO_TCP
    /\ len = WireTransport + SizeofTcpHdr - 1
    /\ WireDestPort = 80
    /\ rules = <<Rule1, TcpDeny>>
    /\ consulted = {0, 1}
    /\ StoppedAt(1)

\* C16: a packet with a truncated transport header is denied when the table
\* holds a rule for its protocol that names a port.
\* The code leaves port = 0, such rules merely do not match, and the packet
\* goes on to the later rules and the default allow.
C16_TruncatedDenied ==
    (pc = "done" /\ Parsed /\ WireIhl >= 5 /\ TruncatedTransport
        /\ \E k \in 1..num_rules :
              rules[k].protocol = WireProtocol /\ rules[k].port # 0)
        => ret = 0

\* C17: for an IPv4 packet that is neither TCP nor UDP no port is extracted,
\* whatever follows the IP header: a rule that names a port never matches
\* it, and a rule with port "any" matches whenever its protocol and source
\* fields do.
C17_NoPortOtherProtocols ==
    (Parsed /\ WireProtocol \notin {IPPROTO_TCP, IPPROTO_UDP})
        => /\ port = 0
           /\ \A k \in consulted :
                 LET r == rules[k + 1]
                 IN  /\ r.port # 0 => ~StoppedAt(k)
                     /\ (/\ r.port = 0
                         /\ r.protocol \in {0, WireProtocol}
                         /\ r.src_ip \in {0, saddr}) => StoppedAt(k)

\* an ICMP frame with 80 where a port would be: (any, 80) is passed over
\* and (any, any) matches
C17_Witness ==
    /\ Parsed
    /\ WireProtocol = IPPROTO_ICMP
    /\ WireIhl = 5
    /\ len >= WireTransport + SizeofTcpHdr
    /\ WireDestPort = 80
    /\ rules = PortOnlyRules
    /\ consulted = {0, 1}
    /\ StoppedAt(1)

\* C18: a rule's source address, a host-order 32-bit value, matches exactly
\* the packets whose four source-address bytes encode it big-endian.
\* The code compares it with ip_hdr->saddr as loaded, in network order.
C18_SrcHostOrder ==
    \A k \in consulted :
        LET r == rules[k + 1]
        IN  (r.src_ip # 0 /\ r.protocol \in {0, proto} /\ r.port \in {0, port})
                => (StoppedAt(k) <=> r.src_ip = WireSrcAddr)

\* C19: a packet whose IHL is below 5 has no destination port extracted
\* (the offset would lie inside the IP header) and is not classified as a
\* well-formed packet: no rule is consulted and no line printed for it.
\* The code never tests IHL.
C19_IhlAtLeastFive ==
    (Parsed /\ WireIhl < 5)
        => (port = 0 /\ consulted = {} /\ out = <<>>)

\* C20: a call leaves the frame buffer and the rule table as they were, at
\* every step of every path.
C20_InputsUnchanged ==
    [][packet' = packet /\ rules' = rules /\ num_rules' = num_rules]_vars

\* a call that returned through the rule loop, the longest path
C20_Witness ==
    /\ ByRule
    /\ num_rules = 4
    /\ consulted = {0, 1, 2}
    /\ ret = 0

(***************************************************************************)
(* C21 - C29                                                               *)
(***************************************************************************)
\* the process is over: both calls have returned, or one has faulted
ProcessOver == pc = "crashed" \/ (pc = "done" /\ other.pc = "done")

\* no rule of the table matches the frame of call c
NoRuleFor(c) ==
    \A k \in 1..num_rules :
        ~RuleMatches(rules[k], ProtocolField(c.packet),
                     ExtractPort(c.packet, c.len), SaddrField(c.packet))

\* call c has returned the decision it returns when run alone
ReturnedOwn(c) ==
    c.pc = "done" /\ c.ret = Decision(c.packet, c.len, rules, num_rules)

\* C21: in every interleaving of two calls on distinct frames and one table,
\* each call returns the decision it returns when run alone.  Stated for the
\* calls that no rule matches, which alone always return.
\* A fault in the printf of the other call ends the process under them.
C21_Reentrant ==
    ProcessOver =>
        /\ NoRuleFor(Context) => ReturnedOwn(Context)
        /\ NoRuleFor(other) => ReturnedOwn(other)

\* C22: every deny produces a log line that records its reason: truncation
\* for a frame denied before the rules, rule match for one denied by a rule.
\* The code returns 0 at line 43 without printing anything.
C22_DenyLogged ==
    (pc = "done" /\ ret = 0)
        => /\ Len(out) = 1
           /\ out[1].action = "Denied"
           /\ out[1].kind = IF consulted = {} THEN "truncated" ELSE "rule"

\* C23: the protocol name printed for a rule-matched packet is the name of
\* the packet's protocol: TCP only for 6, UDP only for 17, ICMP only for 1.
\* Lines 68-69 print ICMP for every protocol that is neither TCP nor UDP.
C23_ProtocolName ==
    ByRule => /\ out[1].name = "TCP" => WireProtocol = IPPROTO_TCP
              /\ out[1].name = "UDP" => WireProtocol = IPPROTO_UDP
              /\ out[1].name = "ICMP" => WireProtocol = IPPROTO_ICMP

\* C24: the call returns deny exactly when the bytes of ether_type say IPv4
\* and either len < 34 or the first matching rule has action deny, and
\* returns allow in every other case.
\* A call that matches a rule can die in the printf of line 66 instead.
C24_DenyIff ==
    Ended =>
        /\ pc = "done"
        /\ ret \in {0, 1}
        /\ ret = 0 <=>
              /\ WireEtherType = ETH_P_IP
              /\ \/ len < SizeofEtherHeader + SizeofIpHdr
                 \/ Matching # {} /\ rules[FirstMatching].allow = 0

\* C25: a call on an IPv4 frame of at least 34 bytes prints exactly one line
\* and the line agrees with the value returned: a rule line saying Denied
\* for 0 and Allowed for 1 when a rule matched, the default line with 1 when
\* none did; a call on any other frame prints nothing.
\* A call that matches a rule can die in the printf of line 66 with nothing
\* printed.
C25_OneLine ==
    Ended =>
        IF IsIPv4Frame /\ len >= SizeofEtherHeader + SizeofIpHdr
        THEN /\ pc = "done"
             /\ Len(out) = 1
             /\ out[1].kind = IF Matching = {} THEN "default" ELSE "rule"
             /\ out[1].action = IF ret = 0 THEN "Denied" ELSE "Allowed"
             /\ out[1].kind = "default" => ret = 1
        ELSE out = <<>>

\* the fields the claim lets a decision depend on: ether_type, IHL,
\* protocol, source address and, for TCP and UDP with a whole transport
\* header, the destination port
FieldsOf(c) ==
    LET p == c.packet
        t == SizeofEtherHeader + (p[SizeofEtherHeader] % 16) * 4
        whole ==
            \/ p[SizeofEtherHeader + 9] = IPPROTO_TCP /\ c.len >= t + SizeofTcpHdr
            \/ p[SizeofEtherHeader + 9] = IPPROTO_UDP /\ c.len >= t + SizeofUdpHdr
    IN  <<p[12], p[13], p[SizeofEtherHeader] % 16, p[SizeofEtherHeader + 9],
          p[SizeofEtherHeader + 12], p[SizeofEtherHeader + 13],
          p[SizeofEtherHeader + 14], p[SizeofEtherHeader + 15],
          IF whole THEN p[t + 2] ELSE 0, IF whole THEN p[t + 3] ELSE 0>>

\* the two calls are on frames of one length that agree on those fields
AgreeOnFields == len = other.len /\ FieldsOf(Context) = FieldsOf(other)

\* C28: two IPv4 frames of the same length that agree on ether_type, IHL,
\* protocol, source address and destination port get the same decision from
\* the same table, whatever their other bytes are.
\* Either of the two calls can die in the printf of line 66 when a rule
\* matches, and then there are not two equal decisions.
C28_Noninterference ==
    (ProcessOver /\ AgreeOnFields)
        => /\ pc = "done"
           /\ other.pc = "done"
           /\ ret = other.ret

\* the history of the capture loop is in step: the calls that returned are
\* the frames that arrived, in order, each with the buffer and the length
\* recvfrom gave
InStep ==
    \A k \in 1..Len(calls) :
        /\ k <= Len(arrived)
        /\ calls[k].packet = arrived[k].packet
        /\ calls[k].len = arrived[k].len

\* main is inside a call of apply_rules
InCall ==
    pc \in {"ether", "iplen", "parse", "loop", "ruleret", "defret", "done",
            "crashed"}

\* C26: in the capture loop every frame recvfrom delivers (length 0
\* included) is passed to apply_rules once, in arrival order and before the
\* next receive; a failed receive starts no call and leaves the loop at its
\* next receive, so every recvfrom is either a frame that arrived or one
\* "Receive failed" on stderr.
C26_EachFrameOnce ==
    /\ InStep
    /\ pc = "recv" => Len(calls) = Len(arrived)
    /\ InCall => /\ Len(arrived) = Len(calls) + 1
                 /\ len >= 0
                 /\ arrived[Len(arrived)] = [packet |-> packet, len |-> len]
    /\ len < 0 => pc = "recv"
    /\ nrecv > 0 => status = -1
    /\ (pc = "recv" \/ InCall) => Len(arrived) + Len(err) = nrecv

\* a failed receive, then an empty frame and a whole frame, both classified
C26_Witness ==
    /\ pc = "recv"
    /\ nrecv = 3
    /\ Len(err) = 1
    /\ Len(calls) = 2
    /\ calls[1].len = 0
    /\ calls[2].len = SizeofEtherHeader + SizeofIpHdr + SizeofTcpHdr
    /\ calls[2].ret = 1

\* C27: in the capture loop only rules 0..2 are ever consulted, the table
\* and its size stay as installed, and a packet that none of the three
\* rules matches is allowed by default, not denied by the zero slots 3..9.
C27_FirstNumRulesOnly ==
    (pc = "recv" \/ InCall)
        => /\ rules = MainRules
           /\ num_rules = 3
           /\ num_rules <= MAX_RULES
           /\ consulted \subseteq 0..(num_rules - 1)
           /\ i <= num_rules
           /\ \A k \in 1..Len(calls) :
                 LET c == calls[k]
                 IN  (/\ ~IsNonIP(c.packet)
                      /\ ~IsShortIp(c.len)
                      /\ \A j \in 1..3 :
                            ~RuleMatches(rules[j], ProtocolField(c.packet),
                                         ExtractPort(c.packet, c.len),
                                         SaddrField(c.packet)))
                         => c.ret = 1

\* TCP to port 22: rules 0..2 are passed over, slot 3 would match and deny,
\* and the packet is allowed by default
C27_Witness ==
    /\ pc = "done"
    /\ len = SizeofEtherHeader + SizeofIpHdr + SizeofTcpHdr
    /\ WireProtocol = IPPROTO_TCP
    /\ WireDestPort = 22
    /\ consulted = {0, 1, 2}
    /\ RuleMatches(rules[4], proto, port, saddr)
    /\ rules[4].allow = 0
    /\ ret = 1

\* C29: no frame is received or classified unless argc is 2, the interface
\* index is not 0, the socket exists and is bound; main exits only with
\* status 1, before the first receive, and with the socket closed when it
\* had been created.
C29_StartupInOrder ==
    /\ (pc = "recv" \/ InCall)
          => /\ argc = 2
             /\ if_index # 0
             /\ sockfd >= 0
             /\ sock = "bound"
             /\ status = -1
    /\ pc = "exited"
          => /\ status = 1
             /\ nrecv = 0
             /\ arrived = <<>>
             /\ calls = <<>>
             /\ out = <<>>
             /\ sock = IF sockfd >= 0 THEN "closed" ELSE "none"
             /\ argc # 2 \/ if_index = 0 \/ sockfd < 0 \/ sock = "closed"
    /\ (pc \notin {"args", "exited"}) => argc = 2
    /\ (pc \in {"socket", "bind", "rules"}) => if_index # 0
    /\ (pc \in {"bind", "rules"}) => sockfd >= 0

\* the bind failed: the socket was created, is closed, and main has exited
C29_Witness ==
    /\ pc = "exited"
    /\ argc = 2
    /\ if_index # 0
    /\ sockfd >= 0
    /\ sock = "closed"
    /\ status = 1
    /\ Len(err) = 1

====
